---- MODULE Spec2Model ----
\* Model of the face animation engine of firmware/friend-esp32-cyd-2_8/src/main_full.cpp:
\* the frame clock, the Silent/Talking speech state machine of setup()/loop()
\* (normal mode), the mood cycle of the debug build, the mouth renderer
\* drawMouthFrame() and drawMouthTalkIdx(); and of the USB serial link sketch.
EXTENDS Integers, Sequences, FiniteSets, TLC

\* ---------------------------------------------------------------- program constants
\* uint32_t values (g_stateUntilMs, g_nextMouthSwapMs, millis(), TickType_t) are
\* kept at their 32-bit width as two 16-bit halves <<hi, lo>>, value hi * 2^16 + lo.
Half == 65536
\* random(0x7fffffff) returns a value in 0 .. 0x7fffffff - 1.
RANDOM_HOWBIG == 2147483647
TALK_SWAP_MS_BASE == 160
TALK_SWAP_JITTER == 40
DUR_CHOICES_S == <<5, 10, 15, 20>>
\* 0.55f * (2.0f/3.0f), as the ratio <<numerator, denominator>>
MOUTH_WIDTH_FACTOR == <<55 * 2, 100 * 3>>
MOUTH_BASELINE_OFFSET == 18
MOUTH_EXTRA_DOWN == 20
\* "2-pixel anchors at baseline"
ANCHOR_PX == 2
\* Debug mode
DEBUG_MOOD_HOLD_MS == 5000
DEBUG_MOODS == <<"Neutral", "Smile", "Frown", "Puzzled", "Oooh">>

\* ---------------------------------------------------------------- bounds of the model
\* Raw values of the random source tried at every draw: 0 .. MaxRand, the largest
\* value random() can return, and the value that at once gives the last
\* duration, the last mood and the largest jitter (RandTop below).
MaxRand == 1
\* Largest talk-frame bank tried (NUM_TALK_FRAMES is set in mouth_patterns.h).
MaxTalkFrames == 3
\* Ticks of loop() explored one by one after setup() (runs of idle ticks, in which
\* nothing is due and nothing is late, are not counted: see Idle).
MaxTicks == 3
\* Milliseconds that can pass between the two reads of millis() in enterTalking()
\* (a read that follows another with only a comparison in between returns the
\* same value).
MaxLag == 1
\* Durations (ms) of the work done between wake-up and the tick's clock reading
\* in the runs with stalls,
\* besides none: a stall of one dwell, and a stall of 2^32 - WrapEdge ms that
\* brings the 32-bit clock to the edge of its wrap-around (it stands for the
\* 49.7 days of running after which millis() wraps).
WorkLong == 5000
WrapEdge == 133
\* Frames per second of the frame clock (Eyes::FPS_DEFAULT, set in eyes.h).
FpsTried == 30

\* Clock reading (ms) after which the on-schedule runs of SpecLive stop ticking:
\* two longest dwells and two periods.
LiveHorizon == 10100
\* Largest talk-frame bank in those runs.
MaxLiveFrames == 2
\* Largest magnitude of the idx values passed to drawMouthTalkIdx one by one (the
\* two ends of the int range are tried besides).
MaxIdxTried == 20
\* Lines the host sends to the serial link in a run.
MaxLines == 2
\* Ticks of loop() explored one by one in debug mode.
MaxDebugTicks == 6

\* The mouth renderer is checked on a small screen: its size, the widest mouth
\* box, and the largest values tried for the constants of mouth_patterns.h
\* (MOUTH_SEGMENTS, MOUTH_MAX_DY, MOUTH_CLEAR_PAD), which are fixed for a run.
ScreenW == 12
ScreenH == 10
MaxMouthW == 9
MaxSegs == 3
MaxDy == 3
MaxPad == 1

\* The mouth layout is checked on screens of two heights, with the eyes high or
\* low on the screen, of one radius, and moved by Eyes::init by nothing, by a
\* little or by a lot (eyes.h is not part of the sources at hand).
PanelH == 240
PanelTallH == 320
EyeCyHigh == 90
EyeCyLow == 200
EyeRadius == 30
EyeShift == 100
\* Normal-mode ticks explored one by one after a laid-out setup().
MaxLayoutTicks == 2

RandTop == Len(DUR_CHOICES_S) * (2 * TALK_SWAP_JITTER + 1) - 1
RandVals == (0 .. MaxRand) \cup {RandTop, RANDOM_HOWBIG - 1}
Lags == 0 .. MaxLag

\* ---------------------------------------------------------------- state
VARIABLES
  now,                \* the millisecond clock (millis(), also the FreeRTOS tick count)
  last,               \* loop()'s static `last`: the previous scheduled wake time
  lastSet,            \* whether the static `last` has been initialised
  g_speech,
  g_stateUntilMs,
  g_currMood,
  g_nextMouthSwapMs,
  g_currTalkIdx,
  NUM_TALK_FRAMES,    \* size of the talk-frame bank (fixed for a run)
  pc,                 \* "boot": before setup(); "wait": between ticks; "swap": in the no-repeat loop
  tNow,               \* loop()'s local tNow of the current/last tick
  \* history (not program state)
  nTicks,             \* ticks explored one by one so far
  stalled,            \* whether some tick's work took a millisecond or more
  idled,              \* whether a run of idle ticks was taken in one step
  lastOp,             \* the step that produced this state
  entered,            \* the state entered by the last step, or "none"
  swapped,            \* whether the last step completed a talk-frame swap
  draws,              \* display operations issued by the last step, in order
  entryMs,            \* clock reading used for the last state deadline
  swapBaseMs,         \* clock reading used for the last swap deadline
  talkDrawMs,         \* tNow of the tick that rendered the current talk frame
  startMs,            \* the tick count the static `last` was initialised with
  kTicks,             \* calls of loop() so far (idle ticks included)
  wokeMs,             \* clock value at which the last tick left vTaskDelayUntil
  events,             \* the calls loop() has made in the current tick, in order
  \* debug mode (MODE_DEBUG builds)
  dbg_idx,
  dbg_nextSwitch,
  moodLog,            \* history: the moods rendered since boot, in order
  MODE,               \* the build: "normal" (MODE_NORMAL) or "debug" (MODE_DEBUG)
  \* the USB serial link sketch
  line,               \* loop()'s static String line, a sequence of characters
  rx,                 \* characters received and not yet read (Serial.available())
  out,                \* the lines printed on Serial so far, each a sequence of pieces
  led,                \* level written to LED_BUILTIN, "unset" before any digitalWrite
  linkPc,             \* "boot" before setup(), then "run"
  nSent,              \* history: lines the host has sent
  wire,               \* characters the host has written that have not arrived yet
  inLoop,             \* a call of loop() is running (its while has not ended)
  rcvd,               \* history: the characters read since the last end of line
  \* the display and the mouth renderer (drawMouthFrame)
  gfxW, gfxH,         \* gfx.width(), gfx.height()
  MOUTH_SEGMENTS, MOUTH_MAX_DY, MOUTH_CLEAR_PAD,
  boxY, boxW,         \* the mouth box: baseline row and width (g_mouthY, g_mouthW)
  fb,                 \* the lit pixels <<column, row>> of the display
  shown,              \* the frame of the last drawMouthFrame call, NoFrame before it
  calls,              \* the display calls of the last drawMouthFrame call, in order
  talkArg,            \* the idx the last drawMouthTalkIdx call was given
  talkRead,           \* the index at which that call read TALK_FRAMES
  EYES                \* the eye state: EYES.oldCy, EYES.L.cy, EYES.L.rWhite

engineVars == <<now, last, lastSet, g_speech, g_stateUntilMs, g_currMood,
                g_nextMouthSwapMs, g_currTalkIdx, NUM_TALK_FRAMES, pc, tNow, nTicks,
                stalled, idled, lastOp, entered, swapped, draws, entryMs, swapBaseMs,
                talkDrawMs, startMs, kTicks, wokeMs, events>>
dbgVars == <<dbg_idx, dbg_nextSwitch, moodLog, MODE>>
mouthVars == <<gfxW, gfxH, MOUTH_SEGMENTS, MOUTH_MAX_DY, MOUTH_CLEAR_PAD, boxY, boxW,
               fb, shown, calls, talkArg, talkRead, EYES>>
linkVars == <<line, rx, out, led, linkPc, nSent, wire, inLoop, rcvd>>
vars == <<engineVars, mouthVars, dbgVars, linkVars>>

\* ---------------------------------------------------------------- helpers
\* The uint32_t of an int n (two's complement for a negative n), -2^31 <= n < 2^31.
U32(n) ==
  IF n >= 0 THEN <<n \div Half, n % Half>>
  ELSE <<(Half - 1) - ((-n - 1) \div Half), (Half - 1) - ((-n - 1) % Half)>>

\* a + b, a - b and a >= b on uint32_t
AddU32(a, b) == <<(a[1] + b[1] + ((a[2] + b[2]) \div Half)) % Half, (a[2] + b[2]) % Half>>
NegU32(a) == AddU32(<<(Half - 1) - a[1], (Half - 1) - a[2]>>, <<0, 1>>)
SubU32(a, b) == AddU32(a, NegU32(b))
GeU32(a, b) == a[1] > b[1] \/ (a[1] = b[1] /\ a[2] >= b[2])
LtU32(a, b) == ~GeU32(a, b)

\* uint32_t + int: the int is converted to uint32_t first
AddInt(a, n) == AddU32(a, U32(n))

\* The int value of a uint32_t below 2^16, and -1 for anything larger.
Small(a) == IF a[1] = 0 THEN a[2] ELSE -1

WorkMs == {U32(0), U32(WorkLong), U32(-WrapEdge)}

\* millis(), read lag ms after clock value t
nowMs(t, lag) == AddInt(t, lag)

\* lo + (int)(random(0x7fffffff) % (uint32_t)(hi - lo + 1)), r the value random() returned
randRange(lo, hi, r) == lo + (r % (hi - lo + 1))

\* pickDurationMs with the seconds left unscaled.
pickDurationMs_Unscaled(r) == DUR_CHOICES_S[randRange(0, Len(DUR_CHOICES_S) - 1, r) + 1]

pickDurationMs(r) == DUR_CHOICES_S[randRange(0, Len(DUR_CHOICES_S) - 1, r) + 1] * 1000

\* The mood pick made on the five-mood table, whose first entry is Neutral.
SilentMood_FromAllMoods(pick) ==
  IF pick = 0 THEN "Neutral"
  ELSE IF pick = 1 THEN "Smile"
  ELSE IF pick = 2 THEN "Frown"
  ELSE "Puzzled"

\* enterSilent(): the mood for randRange(0, 3)
SilentMood(pick) ==
  IF pick = 0 THEN "Smile"
  ELSE IF pick = 1 THEN "Frown"
  ELSE IF pick = 2 THEN "Puzzled"
  ELSE "Oooh"

\* INT_MAX of the 32-bit int.
IntMax == 2147483647

\* a % b of C on ints, b > 0: the remainder has the sign of a.
CRem(a, b) == IF a >= 0 THEN a % b ELSE -((-a) % b)

WrapTalkIdx_SingleRem(idx, n) == CRem(idx, n)

\* (idx % NUM_TALK_FRAMES + NUM_TALK_FRAMES) % NUM_TALK_FRAMES
WrapTalkIdx(idx, n) == CRem(CRem(idx, n) + n, n)

OpClearLabel == [op |-> "clearMoodLabel", mood |-> "none", idx |-> -1]
OpMouthMood(m) == [op |-> "drawMouthMood", mood |-> m, idx |-> -1]
OpMouthTalk(i, n) == [op |-> "drawMouthTalkIdx", mood |-> "none", idx |-> WrapTalkIdx(i, n)]

\* pdMS_TO_TICKS(1000 / Eyes::FPS_DEFAULT) at a 1 kHz tick rate
period == 1000 \div FpsTried

\* vTaskDelayUntil: whether the task sleeps, given the tick count, the previous
\* wake time and the next one (FreeRTOS's overflow-aware comparison).
ShouldDelay(cnt, prev, wake) ==
  IF LtU32(cnt, prev) THEN (LtU32(wake, prev) /\ LtU32(cnt, wake))
  ELSE (LtU32(wake, prev) \/ LtU32(cnt, wake))

\* The transition test with the comparison turned round.
StateDue_Reversed(t, until) == GeU32(until, t)

\* The deadline test with == for >=.
StateDue_Exact(t, until) == t = until

\* loop(): tNow >= g_stateUntilMs
StateDue(t, until) == GeU32(t, until)

\* The swap test with the comparison turned round.
SwapDue_Reversed(speech, t, nextSwap) == speech = "Talking" /\ GeU32(nextSwap, t)

\* The swap test without the test of the speech state.
SwapDue_AnyState(speech, t, nextSwap) == GeU32(t, nextSwap)

\* loop(): g_speech == SpeechState::Talking && tNow >= g_nextMouthSwapMs
SwapDue(speech, t, nextSwap) == speech = "Talking" /\ GeU32(t, nextSwap)

\* The swap deadline with a jitter that is never negative.
SwapDeadline_OneSided(t, r) ==
  AddInt(AddInt(t, TALK_SWAP_MS_BASE), randRange(0, 2 * TALK_SWAP_JITTER, r))

\* nowMs() + TALK_SWAP_MS_BASE + randRange(-(int)TALK_SWAP_JITTER, (int)TALK_SWAP_JITTER)
SwapDeadline(t, r) ==
  AddInt(AddInt(t, TALK_SWAP_MS_BASE), randRange(-TALK_SWAP_JITTER, TALK_SWAP_JITTER, r))

\* nowMs() + pickDurationMs()
StateDeadline(t, r) == AddInt(t, pickDurationMs(r))

\* ---------------------------------------------------------------- initial state
\* The engine before setup().
InitEngine ==
  /\ now = U32(0)
  /\ last = U32(0)
  /\ lastSet = FALSE
  /\ g_speech = "Silent"
  /\ g_stateUntilMs = U32(0)
  /\ g_currMood = "Neutral"
  /\ g_nextMouthSwapMs = U32(0)
  /\ g_currTalkIdx = 0
  /\ NUM_TALK_FRAMES \in 1 .. MaxTalkFrames
  /\ pc = "boot"
  /\ tNow = U32(0)
  /\ nTicks = 0
  /\ stalled = FALSE
  /\ idled = FALSE
  /\ lastOp = "init"
  /\ entered = "none"
  /\ swapped = FALSE
  /\ draws = <<>>
  /\ entryMs = U32(0)
  /\ swapBaseMs = U32(0)
  /\ talkDrawMs = U32(0)
  /\ startMs = U32(0)
  /\ kTicks = 0
  /\ wokeMs = U32(0)
  /\ events = <<>>

\* static int dbg_idx = 0; static uint32_t dbg_nextSwitch = 0;
InitDebugVars ==
  /\ dbg_idx = 0
  /\ dbg_nextSwitch = U32(0)
  /\ moodLog = <<>>

\* The link sketch before its setup(): nothing received, nothing printed.
InitLinkVars ==
  /\ line = <<>>
  /\ rx = <<>>
  /\ out = <<>>
  /\ led = "unset"
  /\ linkPc = "boot"
  /\ nSent = 0
  /\ wire = <<>>
  /\ inLoop = FALSE
  /\ rcvd = <<>>

NoFrame == [upper |-> <<>>, lower |-> <<>>]

\* The fields of Eyes::State that setup() reads, as Eyes::init leaves them.
EyesAt(oldCy, cy, rWhite) == [oldCy |-> oldCy, L |-> [cy |-> cy, rWhite |-> rWhite]]

\* The display as the engine's specification sees it: its calls are recorded in
\* `draws`, its pixels are not computed.
MouthIdle ==
  /\ gfxW = ScreenW
  /\ gfxH = ScreenH
  /\ MOUTH_SEGMENTS = 1
  /\ MOUTH_MAX_DY = 1
  /\ MOUTH_CLEAR_PAD = 0
  /\ boxY = -1
  /\ boxW = -1
  /\ fb = {}
  /\ shown = NoFrame
  /\ calls = <<>>
  /\ talkArg = 0
  /\ talkRead = 0
  /\ EYES = EyesAt(0, 0, 0)

\* The two builds of the firmware.
Builds == {"normal", "debug"}

Init == InitEngine /\ MouthIdle /\ InitDebugVars /\ InitLinkVars /\ MODE = "normal"

\* ---------------------------------------------------------------- operations
\* The start of loop() with the eye update after the clock reading.
TickPrologue_EyesLast == <<"vTaskDelayUntil", "nowMs", "Eyes::update">>

\* The start of every call of loop(): the wait for the frame clock, the eye
\* update, then the clock reading the mood/mouth evaluation starts with.
TickPrologue == <<"vTaskDelayUntil", "Eyes::update", "nowMs">>

\* A render whose endWrite is left for later.
Bracket_LeftOpen(ops) == <<"startWrite">> \o ops

\* gfx.startWrite(); ...; gfx.endWrite();
Bracket(ops) == <<"startWrite">> \o ops \o <<"endWrite">>

EnterSilentEvents == Bracket(<<"clearMoodLabel", "drawMouthMood", "drawMoodLabel">>)
EnterTalkingEvents == Bracket(<<"clearMoodLabel", "drawMouthTalkIdx">>)
SwapEvents == Bracket(<<"drawMouthTalkIdx">>)

\* enterSilent(), called at clock reading t; rd, rm: the two values random() returns.
enterSilent(t, rd, rm) ==
  /\ g_speech' = "Silent"
  /\ g_stateUntilMs' = StateDeadline(t, rd)
  /\ g_currMood' = SilentMood(randRange(0, 3, rm))
  /\ draws' = <<OpClearLabel, OpMouthMood(g_currMood')>>
  /\ entered' = "Silent"
  /\ entryMs' = t
  /\ UNCHANGED <<g_currTalkIdx, g_nextMouthSwapMs, swapBaseMs, talkDrawMs>>

\* enterTalking(); t1, t2: the readings of its two nowMs() calls; tick: the tick's tNow.
enterTalking(t1, t2, tick, rd, ri, rj) ==
  /\ g_speech' = "Talking"
  /\ g_stateUntilMs' = StateDeadline(t1, rd)
  /\ g_currTalkIdx' = randRange(0, NUM_TALK_FRAMES - 1, ri)
  /\ g_nextMouthSwapMs' = SwapDeadline(t2, rj)
  /\ draws' = <<OpClearLabel, OpMouthTalk(g_currTalkIdx', NUM_TALK_FRAMES)>>
  /\ entered' = "Talking"
  /\ entryMs' = t1
  /\ swapBaseMs' = t2
  /\ talkDrawMs' = tick
  /\ UNCHANGED g_currMood

\* The clamp that keeps only the upper limit.
constrain_UpperOnly(amt, low, high) == IF amt > high THEN high ELSE amt

\* Arduino's constrain(amt, low, high):
\* ((amt)<(low)?(low):((amt)>(high)?(high):(amt)))
constrain(amt, low, high) ==
  IF amt < low THEN low ELSE IF amt > high THEN high ELSE amt

\* roundf of the ratio r[1]/r[2] >= 0: the nearest integer, halves away from
\* zero. (The widths tried give no half, where the float product could round
\* either way.)
roundf(r) == (2 * r[1] + r[2]) \div (2 * r[2])

\* gfx.width() * MOUTH_WIDTH_FACTOR
MouthWidthRatio(w) == <<w * MOUTH_WIDTH_FACTOR[1], MOUTH_WIDTH_FACTOR[2]>>

\* setup(): lay out the mouth relative to the eye position Eyes::init has set.
LayoutMouth ==
  LET H             == gfxH
      defaultMouthY == H - MOUTH_BASELINE_OFFSET
      deltaY        == EYES.oldCy - EYES.L.cy
  IN /\ boxY' = constrain(defaultMouthY - deltaY + MOUTH_EXTRA_DOWN,
                          EYES.L.cy + EYES.L.rWhite + 8, H - 4)
     /\ boxW' = roundf(MouthWidthRatio(gfxW))
     /\ UNCHANGED <<gfxW, gfxH, MOUTH_SEGMENTS, MOUTH_MAX_DY, MOUTH_CLEAR_PAD, fb, shown,
                    calls, talkArg, talkRead, EYES>>

\* setup(): normal mode ends with enterSilent().
Setup ==
  /\ MODE = "normal"
  /\ pc = "boot"
  /\ \E rd \in RandVals, rm \in RandVals :
       enterSilent(nowMs(now, 0), rd, rm)
  /\ events' = EnterSilentEvents
  /\ pc' = "wait"
  /\ lastOp' = "setup"
  /\ swapped' = FALSE
  /\ UNCHANGED <<now, last, lastSet, NUM_TALK_FRAMES, tNow, nTicks, stalled, idled,
                 startMs, kTicks, wokeMs>>
  /\ LayoutMouth
  /\ UNCHANGED linkVars
  /\ UNCHANGED dbgVars

\* The wake time taken from the current tick count instead of the previous wake time.
NextWake_FromNow(prev, cnt) == AddInt(cnt, period)

\* vTaskDelayUntil(&last, period): the next wake time is the previous one plus
\* the period, whatever the tick count cnt is now.
NextWake(prev, cnt) == AddInt(prev, period)

\* One call of loop() up to the talking-swap test: wait for the frame clock, update
\* the eyes (e ms), read the clock, make the state transition if due, then either
\* finish the tick or enter the no-repeat selection loop.
TickBody(work) ==
  /\ MODE = "normal"
  /\ pc = "wait"
  /\ \E e \in (IF idled THEN {U32(0)} ELSE work) :
       LET prev == IF lastSet THEN last ELSE now
           wake == NextWake(prev, now)
           woke == IF ShouldDelay(now, prev, wake) THEN wake ELSE now
           t    == AddU32(woke, e)
       IN /\ last' = wake
          /\ lastSet' = TRUE
          /\ startMs' = (IF lastSet THEN startMs ELSE now)
          /\ wokeMs' = woke
          /\ tNow' = t
          /\ stalled' = (stalled \/ e # U32(0))
          /\ IF StateDue(t, g_stateUntilMs)
               THEN IF g_speech = "Silent"
                      THEN \E lb \in Lags,
                              rd \in RandVals, ri \in RandVals, rj \in RandVals :
                             /\ now' = nowMs(t, lb)
                             /\ enterTalking(nowMs(t, 0), now', t, rd, ri, rj)
                             /\ events' = TickPrologue \o EnterTalkingEvents
                      ELSE \E rd \in RandVals, rm \in RandVals :
                             /\ now' = nowMs(t, 0)
                             /\ enterSilent(now', rd, rm)
                             /\ events' = TickPrologue \o EnterSilentEvents
               ELSE /\ now' = t
                    /\ events' = TickPrologue
                    /\ draws' = <<>>
                    /\ entered' = "none"
                    /\ UNCHANGED <<g_speech, g_stateUntilMs, g_currMood, g_currTalkIdx,
                                   g_nextMouthSwapMs, entryMs, swapBaseMs, talkDrawMs>>
          /\ pc' = IF SwapDue(g_speech', t, g_nextMouthSwapMs') THEN "swap" ELSE "wait"
  /\ kTicks' = kTicks + 1
  /\ lastOp' = "tick"
  /\ swapped' = FALSE
  /\ UNCHANGED <<NUM_TALK_FRAMES, idled>>
  /\ UNCHANGED mouthVars
  /\ UNCHANGED linkVars
  /\ UNCHANGED dbgVars

\* The selection without the no-repeat loop: the first value drawn is taken.
SwapLoopExits_FirstDraw(nextIdx, cur) == TRUE

\* One iteration of `while (nextIdx == g_currTalkIdx) nextIdx = randRange(...)`:
\* whether the value drawn leaves the loop.
SwapLoopExits(nextIdx, cur) == nextIdx # cur

\* The no-repeat loop draws the current index again and goes round.
SwapRetry ==
  /\ MODE = "normal"
  /\ pc = "swap"
  /\ \E r \in RandVals :
       ~SwapLoopExits(randRange(0, NUM_TALK_FRAMES - 1, r), g_currTalkIdx)
  /\ lastOp' = "retry"
  /\ UNCHANGED <<now, last, lastSet, g_speech, g_stateUntilMs, g_currMood,
                 g_nextMouthSwapMs, g_currTalkIdx, NUM_TALK_FRAMES, pc, tNow,
                 nTicks, stalled, idled, entered, swapped, draws, entryMs,
                 swapBaseMs, talkDrawMs, startMs, kTicks, wokeMs, events>>
  /\ UNCHANGED mouthVars
  /\ UNCHANGED linkVars
  /\ UNCHANGED dbgVars

\* The loop draws another index: the frame is swapped, rendered and the next swap
\* scheduled from the tick's tNow; the tick is over.
SwapDone ==
  /\ MODE = "normal"
  /\ pc = "swap"
  /\ \E r \in RandVals, rj \in RandVals :
       LET nextIdx == randRange(0, NUM_TALK_FRAMES - 1, r)
       IN /\ SwapLoopExits(nextIdx, g_currTalkIdx)
          /\ g_currTalkIdx' = nextIdx
          /\ draws' = draws \o <<OpMouthTalk(nextIdx, NUM_TALK_FRAMES)>>
          /\ g_nextMouthSwapMs' = SwapDeadline(tNow, rj)
  /\ events' = events \o SwapEvents
  /\ swapBaseMs' = tNow
  /\ talkDrawMs' = tNow
  /\ swapped' = TRUE
  /\ pc' = "wait"
  /\ lastOp' = "swap"
  /\ UNCHANGED <<now, last, lastSet, g_speech, g_stateUntilMs, g_currMood,
                 NUM_TALK_FRAMES, tNow, nTicks, stalled, idled, entered, entryMs,
                 startMs, kTicks, wokeMs>>
  /\ UNCHANGED mouthVars
  /\ UNCHANGED linkVars
  /\ UNCHANGED dbgVars

\* The next deadline loop() tests: the state deadline, and while Talking the swap
\* deadline if it comes first.
NextDue ==
  IF g_speech = "Talking" /\ LtU32(g_nextMouthSwapMs, g_stateUntilMs)
    THEN g_nextMouthSwapMs ELSE g_stateUntilMs

\* The next tick wakes on schedule and nothing is due at its wake-up time.
QuietAhead ==
  /\ MODE = "normal"
  /\ pc = "wait"
  /\ ~stalled
  /\ LET prev  == IF lastSet THEN last ELSE now
         wake1 == NextWake(prev, now)
     IN /\ ShouldDelay(now, prev, wake1)
        /\ LtU32(wake1, NextDue)
        /\ Small(SubU32(NextDue, wake1)) >= 1

\* A run of calls of loop() in which the task wakes on schedule, the work takes no
\* time and nothing is due: all the ticks from the next scheduled one up to the
\* last one before NextDue. Each of them only advances the frame clock. The runs
\* explored are of two kinds: on-time runs, which take their idle ticks in one
\* step and in which no tick's work takes time, and runs with stalls, which take
\* every tick one by one.
Idle ==
  /\ MODE = "normal"
  /\ pc = "wait"
  /\ ~stalled
  /\ LET prev  == IF lastSet THEN last ELSE now
         wake1 == NextWake(prev, now)
         ahead == Small(SubU32(NextDue, wake1))
         more  == (ahead - 1) \div period
         tEnd  == AddInt(wake1, more * period)
     IN /\ ShouldDelay(now, prev, wake1)
        /\ LtU32(wake1, NextDue)
        /\ ahead >= 1
        /\ last' = tEnd
        /\ now' = tEnd
        /\ tNow' = tEnd
        /\ wokeMs' = tEnd
        /\ startMs' = (IF lastSet THEN startMs ELSE now)
        /\ kTicks' = kTicks + 1 + more
  /\ events' = TickPrologue
  /\ lastSet' = TRUE
  /\ idled' = TRUE
  /\ draws' = <<>>
  /\ entered' = "none"
  /\ swapped' = FALSE
  /\ lastOp' = "idle"
  /\ UNCHANGED <<g_speech, g_stateUntilMs, g_currMood, g_nextMouthSwapMs, g_currTalkIdx,
                 NUM_TALK_FRAMES, pc, nTicks, stalled, entryMs, swapBaseMs, talkDrawMs>>
  /\ UNCHANGED mouthVars
  /\ UNCHANGED linkVars
  /\ UNCHANGED dbgVars

\* A call of loop() among those explored one by one, with any of the work
\* durations.
Tick ==
  /\ nTicks < MaxTicks
  /\ nTicks' = nTicks + 1
  /\ TickBody(WorkMs)

Next == Setup \/ Tick \/ Idle \/ SwapRetry \/ SwapDone

Spec == Init /\ [][Next]_vars

\* The random source is fair: a draw that ends the no-repeat loop of the swap, if
\* there is one, is eventually returned.
FairRandom == SF_vars(SwapDone)

SpecFair == Spec /\ FairRandom

\* The engine running on schedule from boot until the clock reads LiveHorizon:
\* no tick's work takes time, the quiet ticks are taken by Idle, every other
\* tick by TickLive.
TickLive ==
  /\ LtU32(now, U32(LiveHorizon))
  /\ ~QuietAhead
  /\ TickBody({U32(0)})
  /\ UNCHANGED nTicks

NextLive == Setup \/ TickLive \/ Idle \/ SwapRetry \/ SwapDone

\* The frame clock keeps ticking: setup() returns, loop() is called again and
\* again, and a draw that ends the no-repeat loop, if there is one, comes.
FairTicks == WF_vars(Setup \/ TickLive \/ Idle \/ SwapDone)

InitLive == Init /\ NUM_TALK_FRAMES <= MaxLiveFrames

SpecLive == InitLive /\ [][NextLive]_vars /\ FairTicks

\* ================================================================ the mouth renderer
\* drawMouthFrame(baseY, mouthW, mf) computed call by call on a display of
\* gfxW x gfxH pixels. MOUTH_SEGMENTS, MOUTH_MAX_DY and MOUTH_CLEAR_PAD come from
\* mouth_patterns.h and are fixed at the start of a run; a frame mf is a pair of
\* sequences of MOUTH_SEGMENTS signed offsets.

\* C integer division (truncation toward zero).
CDiv(a, b) == IF a >= 0 THEN a \div b ELSE -((-a) \div b)

\* (int)lroundf(n / (float)d) for n >= 0, d > 0: round to nearest, halves away
\* from zero. For d <= 13 and n / d < 400 the single-precision product
\* step * (i + 1) of the code rounds to the same integer as the exact quotient.
lroundf(n, d) == (2 * n + d) \div (2 * d)

\* const int mouthX = (W - mouthW) / 2
mouthX(W, mouthW) == CDiv(W - mouthW, 2)

\* const int innerW = mouthW - 2*ANCHOR_PX
innerW(mouthW) == mouthW - 2 * ANCHOR_PX

\* nextX of iteration i (0-based) of the segment loop.
nextX(i, W, mouthW, segs) ==
  IF i = segs - 1
    THEN mouthX(W, mouthW) + mouthW - ANCHOR_PX
    ELSE mouthX(W, mouthW) + ANCHOR_PX + lroundf(innerW(mouthW) * (i + 1), segs)

SegX_FromBoxEdge(i, W, mouthW, segs) ==
  IF i = 0 THEN mouthX(W, mouthW) ELSE nextX(i - 1, W, mouthW, segs)

\* x at the start of iteration i: mouthX + ANCHOR_PX, then the previous nextX.
SegX(i, W, mouthW, segs) ==
  IF i = 0 THEN mouthX(W, mouthW) + ANCHOR_PX ELSE nextX(i - 1, W, mouthW, segs)

\* int w = nextX - x; if (w < 1) w = 1;
SegW(i, W, mouthW, segs) ==
  LET w == nextX(i, W, mouthW, segs) - SegX(i, W, mouthW, segs)
  IN IF w < 1 THEN 1 ELSE w

ClampDy_UpperOnly(v, maxDy) == IF v > maxDy THEN maxDy ELSE v

\* The clamp with twice the range.
ClampDy_TwiceRange(v, maxDy) ==
  IF v < -(2 * maxDy) THEN -(2 * maxDy) ELSE IF v > 2 * maxDy THEN 2 * maxDy ELSE v

\* if (uy < -MOUTH_MAX_DY) uy = -MOUTH_MAX_DY; if (uy > MOUTH_MAX_DY) uy = MOUTH_MAX_DY;
ClampDy(v, maxDy) == IF v < -maxDy THEN -maxDy ELSE IF v > maxDy THEN maxDy ELSE v

\* A display call: a filled rectangle of w x h pixels at (x, y) in a colour. seg
\* and lip tell which stroke of the frame it is (history, not passed to the display).
GfxCall(color, x, y, w, h, seg, lip) ==
  [color |-> color, x |-> x, y |-> y, w |-> w, h |-> h, seg |-> seg, lip |-> lip]

ClearCall_BaselineOnly(baseY, mouthW, W, maxDy, pad) ==
  GfxCall("black", mouthX(W, mouthW), baseY, mouthW, 1, -1, "clear")

\* gfx.fillRect(mouthX, clearY0, mouthW, clearY1 - clearY0 + 1, TFT_BLACK)
ClearCall(baseY, mouthW, W, maxDy, pad) ==
  LET clearY0 == baseY - maxDy - pad
      clearY1 == baseY + maxDy + pad
  IN GfxCall("black", mouthX(W, mouthW), clearY0, mouthW, clearY1 - clearY0 + 1,
             -1, "clear")

\* The two gfx.drawFastHLine calls of the anchors.
AnchorCalls(baseY, mouthW, W) ==
  << GfxCall("white", mouthX(W, mouthW), baseY, ANCHOR_PX, 1, -1, "anchorL"),
     GfxCall("white", mouthX(W, mouthW) + mouthW - ANCHOR_PX, baseY, ANCHOR_PX, 1,
             -1, "anchorR") >>

\* The two gfx.drawFastHLine calls of iteration i (0-based) of the segment loop,
\* the upper lip first; none at all when innerW <= 0 (the early return).
LipCalls(baseY, mouthW, mf, W, segs, maxDy) ==
  IF innerW(mouthW) <= 0 THEN <<>>
  ELSE [k \in 1 .. 2 * segs |->
          LET i  == (k - 1) \div 2
              x  == SegX(i, W, mouthW, segs)
              w  == SegW(i, W, mouthW, segs)
              uy == ClampDy(mf.upper[i + 1], maxDy)
              ly == ClampDy(mf.lower[i + 1], maxDy)
          IN IF k % 2 = 1 THEN GfxCall("white", x, baseY - uy, w, 1, i, "upper")
                          ELSE GfxCall("white", x, baseY - ly, w, 1, i, "lower")]

\* All the display calls of drawMouthFrame(baseY, mouthW, mf), in order.
drawMouthFrame(baseY, mouthW, mf, W, segs, maxDy, pad) ==
  <<ClearCall(baseY, mouthW, W, maxDy, pad)>>
    \o AnchorCalls(baseY, mouthW, W)
    \o LipCalls(baseY, mouthW, mf, W, segs, maxDy)

\* The pixels a call writes: its rectangle, clipped to the display.
Max(a, b) == IF a > b THEN a ELSE b
Min(a, b) == IF a < b THEN a ELSE b
CallPixels(c, W, H) ==
  (Max(c.x, 0) .. Min(c.x + c.w - 1, W - 1)) \X (Max(c.y, 0) .. Min(c.y + c.h - 1, H - 1))

\* The display after a call: black pixels go dark, white pixels are lit.
Apply(lit, c, W, H) ==
  IF c.color = "black" THEN lit \ CallPixels(c, W, H) ELSE lit \cup CallPixels(c, W, H)

\* The display after the calls cs[k], cs[k + 1], ... in order.
RECURSIVE Render(_, _, _, _, _)
Render(lit, cs, k, W, H) ==
  IF k > Len(cs) THEN lit ELSE Render(Apply(lit, cs[k], W, H), cs, k + 1, W, H)

\* The frames tried: each lip is flat, a slope inside the range, alternating
\* beyond the two ends of the range, or alternating at its two ends.
LipShape(k, segs, maxDy) ==
  [i \in 1 .. segs |->
     CASE k = 1 -> 0
       [] k = 2 -> (i % 3) - 1
       [] k = 3 -> IF i % 2 = 1 THEN maxDy + 2 ELSE -(maxDy + 1)
       [] OTHER -> IF i % 2 = 1 THEN -maxDy ELSE maxDy]

FrameBank(segs, maxDy) ==
  {[upper |-> LipShape(a, segs, maxDy), lower |-> LipShape(b, segs, maxDy)] :
     a \in 1 .. 4, b \in 1 .. 4}

\* setup() up to the mouth layout: the screen is black, the mouth box is laid out.
\* Where the eyes leave room g_mouthY is constrained to at most H - 4; both a
\* baseline with the whole band on the screen and the lowest one are tried.
InitMouth ==
  /\ gfxW = ScreenW
  /\ gfxH = ScreenH
  /\ MOUTH_SEGMENTS \in 1 .. MaxSegs
  /\ MOUTH_MAX_DY \in {1, MaxDy}
  /\ MOUTH_CLEAR_PAD \in {0, MaxPad}
  /\ boxY \in {gfxH - MaxDy - MaxPad - 1, gfxH - 4}
  /\ boxW \in 0 .. MaxMouthW
  /\ fb = {}
  /\ shown = NoFrame
  /\ calls = <<>>
  /\ talkArg = 0
  /\ talkRead = 0
  /\ EYES = EyesAt(0, 0, 0)

InitDraw ==
  /\ InitEngine /\ NUM_TALK_FRAMES = MaxTalkFrames /\ InitMouth /\ InitDebugVars
  /\ InitLinkVars /\ MODE = "normal"

\* drawMouthMood / drawMouthTalkIdx: drawMouthFrame(g_mouthY, g_mouthW, f).
DrawMouth ==
  /\ \E f \in FrameBank(MOUTH_SEGMENTS, MOUTH_MAX_DY) :
       LET cs == drawMouthFrame(boxY, boxW, f, gfxW, MOUTH_SEGMENTS, MOUTH_MAX_DY,
                                MOUTH_CLEAR_PAD)
       IN /\ calls' = cs
          /\ fb' = Render(fb, cs, 1, gfxW, gfxH)
          /\ shown' = f
  /\ UNCHANGED <<gfxW, gfxH, MOUTH_SEGMENTS, MOUTH_MAX_DY, MOUTH_CLEAR_PAD, boxY, boxW,
                 talkArg, talkRead, EYES>>
  /\ UNCHANGED engineVars
  /\ UNCHANGED linkVars
  /\ UNCHANGED dbgVars

\* Something other than the mouth renderer has lit every pixel of the display.
Smear ==
  /\ fb' = (0 .. gfxW - 1) \X (0 .. gfxH - 1)
  /\ fb' # fb
  /\ shown' = NoFrame
  /\ calls' = <<>>
  /\ UNCHANGED <<gfxW, gfxH, MOUTH_SEGMENTS, MOUTH_MAX_DY, MOUTH_CLEAR_PAD, boxY, boxW,
                 talkArg, talkRead, EYES>>
  /\ UNCHANGED engineVars
  /\ UNCHANGED linkVars
  /\ UNCHANGED dbgVars

NextDraw == DrawMouth \/ Smear

SpecDraw == InitDraw /\ [][NextDraw]_vars

\* ---------------------------------------------------------------- drawMouthTalkIdx
\* drawMouthTalkIdx called with any int. INT_MIN itself is left out: its
\* remainder is that of INT_MIN + NUM_TALK_FRAMES, which is in the set.

IdxTried == (-MaxIdxTried .. MaxIdxTried) \cup {-IntMax, IntMax}

\* The talk-frame bank of n frames (its frames are in mouth_patterns.h).
TALK_FRAMES(n, segs, maxDy) ==
  [k \in 1 .. n |->
     [upper |-> LipShape(k, segs, maxDy), lower |-> LipShape(5 - k, segs, maxDy)]]

\* What TALK_FRAMES[j] can be: the frame of the bank, or for an index outside the
\* bank whatever lies in memory there.
TalkFrameRead(j, n, segs, maxDy) ==
  IF j \in 0 .. n - 1
    THEN {TALK_FRAMES(n, segs, maxDy)[j + 1]}
    ELSE FrameBank(segs, maxDy)

\* The mouth laid out at its largest, for a bank of any size tried.
InitTalk ==
  /\ InitEngine /\ InitDebugVars /\ InitLinkVars /\ MODE = "normal"
  /\ gfxW = ScreenW
  /\ gfxH = ScreenH
  /\ MOUTH_SEGMENTS = MaxSegs
  /\ MOUTH_MAX_DY = MaxDy
  /\ MOUTH_CLEAR_PAD = 0
  /\ boxY = gfxH - MaxDy - MaxPad - 1
  /\ boxW = MaxMouthW
  /\ fb = {}
  /\ shown = NoFrame
  /\ calls = <<>>
  /\ talkArg = 0
  /\ talkRead = 0
  /\ EYES = EyesAt(0, 0, 0)

\* drawMouthTalkIdx(idx): wrap idx, read the bank, draw the frame.
DrawTalkIdx ==
  /\ \E idx \in IdxTried :
       LET j == WrapTalkIdx(idx, NUM_TALK_FRAMES)
       IN /\ talkArg' = idx
          /\ talkRead' = j
          /\ \E f \in TalkFrameRead(j, NUM_TALK_FRAMES, MOUTH_SEGMENTS, MOUTH_MAX_DY) :
               LET cs == drawMouthFrame(boxY, boxW, f, gfxW, MOUTH_SEGMENTS,
                                        MOUTH_MAX_DY, MOUTH_CLEAR_PAD)
               IN /\ calls' = cs
                  /\ fb' = Render(fb, cs, 1, gfxW, gfxH)
                  /\ shown' = f
  /\ UNCHANGED <<gfxW, gfxH, MOUTH_SEGMENTS, MOUTH_MAX_DY, MOUTH_CLEAR_PAD, boxY, boxW,
                 EYES>>
  /\ UNCHANGED engineVars
  /\ UNCHANGED linkVars
  /\ UNCHANGED dbgVars

NextTalk == DrawTalkIdx

SpecTalk == InitTalk /\ [][NextTalk]_vars

\* ================================================================ debug mode
\* The program built with MODE_DEBUG instead of MODE_NORMAL: setup() renders the
\* first mood of DEBUG_MOODS and loop() steps through the table.

\* Durations (ms) of the work between wake-up and the tick's clock reading.
WorkDebug == {U32(0), U32(WorkLong)}

\* drawMoodLabel(moodName(m))
OpMoodLabel(m) == [op |-> "drawMoodLabel", mood |-> m, idx |-> -1]

\* drawMouthMood(m); clearMoodLabel(); drawMoodLabel(moodName(m));
DebugDraws(m) == <<OpMouthMood(m), OpClearLabel, OpMoodLabel(m)>>
DebugEvents == Bracket(<<"drawMouthMood", "clearMoodLabel", "drawMoodLabel">>)

\* The step through the table that stops at its last entry.
DebugNextIdx_NoWrap(idx) == IF idx + 1 < Len(DEBUG_MOODS) THEN idx + 1 ELSE idx

\* (dbg_idx + 1) % (sizeof(DEBUG_MOODS)/sizeof(DEBUG_MOODS[0]))
DebugNextIdx(idx) == (idx + 1) % Len(DEBUG_MOODS)

\* loop(): tNow >= dbg_nextSwitch
DebugDue(t, next) == GeU32(t, next)

InitDebug ==
  /\ InitEngine /\ NUM_TALK_FRAMES = MaxTalkFrames /\ MouthIdle /\ InitDebugVars
  /\ InitLinkVars /\ MODE = "debug"

\* setup() in debug mode: start at the first mood.
SetupDebug ==
  /\ MODE = "debug"
  /\ UNCHANGED MODE
  /\ pc = "boot"
  /\ dbg_idx' = 0
  /\ draws' = DebugDraws(DEBUG_MOODS[1])
  /\ events' = DebugEvents
  /\ moodLog' = <<DEBUG_MOODS[1]>>
  /\ dbg_nextSwitch' = AddInt(nowMs(now, 0), DEBUG_MOOD_HOLD_MS)
  /\ pc' = "wait"
  /\ lastOp' = "setup"
  /\ UNCHANGED <<now, last, lastSet, g_speech, g_stateUntilMs, g_currMood,
                 g_nextMouthSwapMs, g_currTalkIdx, NUM_TALK_FRAMES, tNow, nTicks,
                 stalled, idled, entered, swapped, entryMs, swapBaseMs, talkDrawMs,
                 startMs, kTicks, wokeMs>>
  /\ LayoutMouth
  /\ UNCHANGED linkVars

\* One call of loop() in debug mode.
TickDebug ==
  /\ MODE = "debug"
  /\ UNCHANGED MODE
  /\ pc = "wait"
  /\ nTicks < MaxDebugTicks
  /\ \E e \in (IF idled THEN {U32(0)} ELSE WorkDebug) :
       LET prev == IF lastSet THEN last ELSE now
           wake == NextWake(prev, now)
           woke == IF ShouldDelay(now, prev, wake) THEN wake ELSE now
           t    == AddU32(woke, e)
       IN /\ last' = wake
          /\ lastSet' = TRUE
          /\ startMs' = (IF lastSet THEN startMs ELSE now)
          /\ wokeMs' = woke
          /\ tNow' = t
          /\ now' = t
          /\ stalled' = (stalled \/ e # U32(0))
          /\ IF DebugDue(t, dbg_nextSwitch)
               THEN /\ dbg_idx' = DebugNextIdx(dbg_idx)
                    /\ draws' = DebugDraws(DEBUG_MOODS[dbg_idx' + 1])
                    /\ events' = TickPrologue \o DebugEvents
                    /\ moodLog' = Append(moodLog, DEBUG_MOODS[dbg_idx' + 1])
                    /\ dbg_nextSwitch' = AddInt(t, DEBUG_MOOD_HOLD_MS)
               ELSE /\ draws' = <<>>
                    /\ events' = TickPrologue
                    /\ UNCHANGED <<dbg_idx, dbg_nextSwitch, moodLog>>
  /\ nTicks' = nTicks + 1
  /\ kTicks' = kTicks + 1
  /\ lastOp' = "tick"
  /\ UNCHANGED <<g_speech, g_stateUntilMs, g_currMood, g_nextMouthSwapMs, g_currTalkIdx,
                 NUM_TALK_FRAMES, pc, idled, entered, swapped, entryMs, swapBaseMs,
                 talkDrawMs>>
  /\ UNCHANGED mouthVars
  /\ UNCHANGED linkVars

\* A run of on-time calls of loop() in debug mode in which no switch is due: all
\* the ticks up to the last one before dbg_nextSwitch (see Idle).
IdleDebug ==
  /\ MODE = "debug"
  /\ pc = "wait"
  /\ ~stalled
  /\ LET prev  == IF lastSet THEN last ELSE now
         wake1 == NextWake(prev, now)
         ahead == Small(SubU32(dbg_nextSwitch, wake1))
         more  == (ahead - 1) \div period
         tEnd  == AddInt(wake1, more * period)
     IN /\ ShouldDelay(now, prev, wake1)
        /\ LtU32(wake1, dbg_nextSwitch)
        /\ ahead >= 1
        /\ last' = tEnd
        /\ now' = tEnd
        /\ tNow' = tEnd
        /\ wokeMs' = tEnd
        /\ startMs' = (IF lastSet THEN startMs ELSE now)
        /\ kTicks' = kTicks + 1 + more
  /\ events' = TickPrologue
  /\ lastSet' = TRUE
  /\ idled' = TRUE
  /\ draws' = <<>>
  /\ lastOp' = "idle"
  /\ UNCHANGED <<g_speech, g_stateUntilMs, g_currMood, g_nextMouthSwapMs, g_currTalkIdx,
                 NUM_TALK_FRAMES, pc, nTicks, stalled, entered, swapped, entryMs,
                 swapBaseMs, talkDrawMs>>
  /\ UNCHANGED mouthVars
  /\ UNCHANGED linkVars
  /\ UNCHANGED dbgVars

NextDebug == SetupDebug \/ TickDebug \/ IdleDebug

SpecDebug == InitDebug /\ [][NextDebug]_vars

\* Either build: the firmware is compiled in one mode and runs in it.
InitBuilds ==
  InitEngine /\ MouthIdle /\ InitDebugVars /\ InitLinkVars /\ MODE \in Builds

NextBuilds == Next \/ NextDebug

SpecBuilds == InitBuilds /\ [][NextBuilds]_vars

\* ================================================================ mouth layout
\* Either build on a screen of either height, with every eye layout tried.
LayoutHeights == {PanelH, PanelTallH}

\* The eye layouts tried: EYES.L.cy high or low, EYES.oldCy above it, on it or
\* below it.
EyeLayouts ==
  {EyesAt(cy + d, cy, EyeRadius) :
     cy \in {EyeCyHigh, EyeCyLow}, d \in {-EyeShift, EyeShift, 2 * EyeShift}}

\* Before setup(): static int g_mouthY = -1; static int g_mouthW = -1;
InitLayout ==
  /\ InitEngine /\ NUM_TALK_FRAMES = MaxLiveFrames /\ InitDebugVars /\ InitLinkVars
  /\ MODE \in Builds
  /\ gfxW = ScreenW
  /\ gfxH \in LayoutHeights
  /\ MOUTH_SEGMENTS = 1
  /\ MOUTH_MAX_DY = 1
  /\ MOUTH_CLEAR_PAD = 0
  /\ boxY = -1
  /\ boxW = -1
  /\ fb = {}
  /\ shown = NoFrame
  /\ calls = <<>>
  /\ talkArg = 0
  /\ talkRead = 0
  /\ EYES \in EyeLayouts

\* One call of loop() in normal mode, on time or late, counted up to the bound of
\* this specification.
TickLayout ==
  /\ nTicks < MaxLayoutTicks
  /\ nTicks' = nTicks + 1
  /\ TickBody(WorkMs)

NextLayout == Setup \/ TickLayout \/ Idle \/ SwapRetry \/ SwapDone \/ NextDebug

SpecLayout == InitLayout /\ [][NextLayout]_vars

\* ================================================================ the USB serial link
\* The sketch of the serial command link. A String is a sequence of
\* one-character strings; a printed line is <<head, token, tail>>, the pieces
\* the sketch prints before the line ends (acks and the status line have an
\* empty token and tail).

READY_LINE == <<"{\"status\":\"ready\",\"app\":\"usb-link\"}", <<>>, "">>
ACK_START == <<"{\"ack\":\"start_smile\"}", <<>>, "">>
ACK_STOP == <<"{\"ack\":\"stop\"}", <<>>, "">>
ErrorReply(token) == <<"{\"error\":\"unknown_cmd\",\"cmd\":\"", token, "\"}">>

CMD_START == <<"s", "t", "a", "r", "t", " ", "s", "m", "i", "l", "e">>
CMD_STOP == <<"s", "t", "o", "p">>

\* The end-of-line characters of loop().
IsEol(c) == c = "\n" \/ c = "\r"

\* isspace() on the characters of the model.
IsSpace(c) == c \in {" ", "\t", "\n", "\r"}

UpperChars == <<"A", "C", "D", "E", "I", "L", "M", "N", "O", "P", "R", "S", "T">>
LowerChars == <<"a", "c", "d", "e", "i", "l", "m", "n", "o", "p", "r", "s", "t">>

\* tolower() on the characters of the model.
ToLower(c) ==
  IF \E i \in 1..Len(UpperChars) : UpperChars[i] = c
  THEN LowerChars[CHOOSE i \in 1..Len(UpperChars) : UpperChars[i] = c]
  ELSE c

RECURSIVE DropLeading(_)
DropLeading(str) ==
  IF str # <<>> /\ IsSpace(Head(str)) THEN DropLeading(Tail(str)) ELSE str

RECURSIVE DropTrailing(_)
DropTrailing(str) ==
  IF str # <<>> /\ IsSpace(str[Len(str)])
  THEN DropTrailing(SubSeq(str, 1, Len(str) - 1))
  ELSE str

trim_LeadingOnly(str) == DropLeading(str)

\* String::trim(): the string without its leading and trailing white space.
trim(str) == DropTrailing(DropLeading(str))

equalsIgnoreCase_SameCase(a, b) == a = b

\* String::equalsIgnoreCase(): same length and the same characters once lowered.
equalsIgnoreCase(a, b) ==
  /\ Len(a) = Len(b)
  /\ \A i \in 1..Len(a) : ToLower(a[i]) = ToLower(b[i])

\* The lines a host sends, without their terminator.
LineBank ==
  { <<"s", "t", "a", "r", "t", " ", "s", "m", "i", "l", "e">>,
    <<"S", "T", "A", "R", "T", " ", "S", "M", "I", "L", "E">>,
    <<"S", "t", "a", "r", "t", " ", "S", "m", "i", "l", "e">>,
    <<"s", "t", "o", "p">>,
    <<"S", "t", "O", "p">>,
    <<"d", "a", "n", "c", "e">>,
    <<"n", "o", " ">>,
    <<" ", "s", "t", "o", "p", " ">>,
    <<" ", " ">>,
    <<>> }

\* The terminators a host ends a line with.
Terminators == {<<"\n">>, <<"\r">>, <<"\r", "\n">>}

InitLink ==
  /\ InitEngine /\ NUM_TALK_FRAMES = MaxTalkFrames /\ MouthIdle /\ InitDebugVars
  /\ InitLinkVars /\ MODE = "normal"

LinkSetup_NoReady ==
  /\ linkPc = "boot"
  /\ linkPc' = "run"
  /\ UNCHANGED <<line, rx, out, led, nSent, wire, inLoop, rcvd>>
  /\ UNCHANGED <<engineVars, mouthVars, dbgVars>>

\* setup(): print the status line, make the indicator pin an output.
LinkSetup ==
  /\ linkPc = "boot"
  /\ linkPc' = "run"
  /\ out' = Append(out, READY_LINE)
  /\ UNCHANGED <<line, rx, led, nSent, wire, inLoop, rcvd>>
  /\ UNCHANGED <<engineVars, mouthVars, dbgVars>>

\* The host writes one line and its terminator to the port; the first k
\* characters arrive at once, the others later.
HostSend ==
  /\ nSent < MaxLines
  /\ rx = <<>>
  /\ wire = <<>>
  /\ \E l \in LineBank, t \in Terminators :
       \E k \in 1 .. Len(l \o t) :
         /\ rx' = SubSeq(l \o t, 1, k)
         /\ wire' = SubSeq(l \o t, k + 1, Len(l \o t))
  /\ nSent' = nSent + 1
  /\ UNCHANGED <<line, out, led, linkPc, inLoop, rcvd>>
  /\ UNCHANGED <<engineVars, mouthVars, dbgVars>>

\* The characters still under way arrive, after loop() has read all the others.
Arrive ==
  /\ rx = <<>>
  /\ wire # <<>>
  /\ rx' = wire
  /\ wire' = <<>>
  /\ UNCHANGED <<line, out, led, linkPc, nSent, inLoop, rcvd>>
  /\ UNCHANGED <<engineVars, mouthVars, dbgVars>>

\* static String line: a call of loop() finds the buffer as the last call left it.
LineOnEntry(l) == l

\* One turn of loop()'s while: read a character, and at an end of line run
\* the command the buffer holds. The call of loop() ends when nothing is left
\* to read.
LinkRead ==
  /\ linkPc = "run"
  /\ rx # <<>>
  /\ rx' = Tail(rx)
  /\ inLoop' = (rx' # <<>>)
  /\ LET c == Head(rx)
         buf == IF inLoop THEN line ELSE LineOnEntry(line)
         cmd == trim(buf)
     IN  /\ rcvd' = IF IsEol(c) THEN <<>> ELSE Append(rcvd, c)
         /\ IF IsEol(c)
            THEN IF Len(buf) > 0
                 THEN /\ line' = <<>>
                      /\ IF equalsIgnoreCase(cmd, CMD_START)
                         THEN out' = Append(out, ACK_START) /\ led' = "HIGH"
                         ELSE IF equalsIgnoreCase(cmd, CMD_STOP)
                         THEN out' = Append(out, ACK_STOP) /\ led' = "LOW"
                         ELSE out' = Append(out, ErrorReply(cmd)) /\ led' = led
                 ELSE line' = buf /\ UNCHANGED <<out, led>>
            ELSE line' = Append(buf, c) /\ UNCHANGED <<out, led>>
  /\ UNCHANGED <<linkPc, nSent, wire>>
  /\ UNCHANGED <<engineVars, mouthVars, dbgVars>>

NextLink == LinkSetup \/ HostSend \/ Arrive \/ LinkRead

SpecLink == InitLink /\ [][NextLink]_vars

\* ================================================================ claims
\* The steps of loop(): a tick taken by Tick, and the end of a talk-frame swap.
TickStep == nTicks' = nTicks + 1
SwapStep == pc = "swap" /\ pc' = "wait"

DwellSetMs == {5000, 10000, 15000, 20000}
SilentMoods == {"Smile", "Frown", "Puzzled", "Oooh"}

\* C1: every talk-frame swap performed while Talking selects an index that differs
\* from the one displayed just before it and lies in 0 .. NUM_TALK_FRAMES - 1 (and
\* the frame rendered by the swap is the one selected).
C1_SwapNeverRepeats ==
  [][SwapStep =>
       /\ g_speech = "Talking"
       /\ g_currTalkIdx' # g_currTalkIdx
       /\ g_currTalkIdx' \in 0 .. NUM_TALK_FRAMES - 1
       /\ draws'[Len(draws')] = [op |-> "drawMouthTalkIdx", mood |-> "none",
                                 idx |-> g_currTalkIdx']]_vars

C1_Witness ==
  lastOp = "swap" /\ swapped /\ idled /\ NUM_TALK_FRAMES = 3 /\ g_currTalkIdx = 2

\* C2: every duration pickDurationMs produces, for every value of the random
\* source, is one of 5000, 10000, 15000, 20000 ms, and after setup the state
\* deadline is always the clock reading of the last entry plus one of them.
C2_DwellInSet ==
  /\ \A r \in RandVals : pickDurationMs(r) \in DwellSetMs
  /\ pc # "boot" => Small(SubU32(g_stateUntilMs, entryMs)) \in DwellSetMs

C2_Witness ==
  /\ entered = "Talking"
  /\ Small(SubU32(g_stateUntilMs, entryMs)) = 20000
  /\ nTicks = 2

\* C3: the engine is Silent when setup completes, and in no state after setup is
\* the current mood Neutral: it is one of Smile, Frown, Puzzled, Oooh.
C3_MoodNeverNeutral ==
  /\ lastOp = "setup" => (g_speech = "Silent" /\ entered = "Silent")
  /\ pc # "boot" => g_currMood \in SilentMoods
  /\ entered = "Silent" =>
       draws = <<OpClearLabel, [op |-> "drawMouthMood", mood |-> g_currMood, idx |-> -1]>>

C3_Witness == lastOp = "tick" /\ entered = "Silent" /\ g_currMood = "Oooh"

\* C4: after boot the speech state and its deadline change only in a tick whose
\* clock reading is at or past the deadline; such a tick flips the state once
\* (Silent to Talking or Talking to Silent) and sets a fresh deadline, the entry
\* reading plus a dwell; any other step leaves both unchanged.
C4_FlipOnlyOnExpiry ==
  [][pc # "boot" =>
       IF TickStep /\ GeU32(tNow', g_stateUntilMs)
         THEN /\ g_speech' = (IF g_speech = "Silent" THEN "Talking" ELSE "Silent")
              /\ entered' = g_speech'
              /\ entryMs' = tNow'
              /\ Small(SubU32(g_stateUntilMs', entryMs')) \in DwellSetMs
         ELSE UNCHANGED <<g_speech, g_stateUntilMs, entryMs>>]_vars

C4_Witness ==
  /\ lastOp = "tick" /\ entered = "Talking" /\ nTicks = 3
  /\ LtU32(tNow, g_stateUntilMs)
  /\ g_currMood = "Frown"

\* C5: a tick that begins and ends in Silent issues no mouth draw (no display
\* operation at all), does not start a swap and leaves the mood unchanged, also
\* when the swap deadline left by the previous Talking state has passed.
C5_SilentIsStatic ==
  [][(pc = "wait" /\ pc' # "boot" /\ g_speech = "Silent" /\ g_speech' = "Silent") =>
       /\ draws' = <<>>
       /\ pc' = "wait"
       /\ ~swapped'
       /\ UNCHANGED <<g_currMood, g_currTalkIdx, g_nextMouthSwapMs>>]_vars

C5_Witness ==
  /\ lastOp = "tick" /\ g_speech = "Silent" /\ entered = "none"
  /\ g_nextMouthSwapMs # U32(0)
  /\ GeU32(tNow, g_nextMouthSwapMs)
  /\ LtU32(tNow, g_stateUntilMs)

\* C6: a tick in which the Silent deadline has expired enters Talking in that
\* same tick: the starting index is in 0 .. NUM_TALK_FRAMES - 1, the label band
\* is cleared and the starting frame rendered, and the first swap deadline is
\* 120 to 200 ms after the clock reading enterTalking takes to schedule it.
C6_EnterTalking ==
  [][(TickStep /\ pc # "boot" /\ g_speech = "Silent" /\ GeU32(tNow', g_stateUntilMs)) =>
       /\ g_speech' = "Talking"
       /\ g_currTalkIdx' \in 0 .. NUM_TALK_FRAMES - 1
       /\ draws' = <<OpClearLabel,
                     [op |-> "drawMouthTalkIdx", mood |-> "none", idx |-> g_currTalkIdx']>>
       /\ Small(SubU32(g_nextMouthSwapMs', swapBaseMs')) \in 120 .. 200
       /\ Small(SubU32(swapBaseMs', tNow')) \in 0 .. MaxLag
       /\ talkDrawMs' = tNow']_vars

C6_Witness ==
  /\ lastOp = "tick" /\ entered = "Talking" /\ idled
  /\ Small(SubU32(g_nextMouthSwapMs, swapBaseMs)) = 200
  /\ swapBaseMs # tNow
  /\ g_currTalkIdx = 1
\* Milliseconds from the render of the current talk frame to the current tick.
SinceTalkDraw == Small(SubU32(tNow, talkDrawMs))

Drawn == shown # NoFrame

\* The lip strokes among the calls of the last drawMouthFrame call.
LipStrokes == {k \in 1 .. Len(calls) : calls[k].lip \in {"upper", "lower"}}

\* The offset the frame stores for a lip stroke.
StoredDy(c) == IF c.lip = "upper" THEN shown.upper[c.seg + 1] ELSE shown.lower[c.seg + 1]

InRange(d) == -MOUTH_MAX_DY <= d /\ d <= MOUTH_MAX_DY

\* C8: every lip stroke drawMouthFrame draws is on a row baseY - d with
\* -MAX_DY <= d <= MAX_DY, whatever offsets the frame stores, and a stored offset
\* already inside the range is drawn unchanged.
C8_LipRowsClamped ==
  \A k \in LipStrokes :
    LET d == boxY - calls[k].y
    IN /\ calls[k].h = 1
       /\ InRange(d)
       /\ InRange(StoredDy(calls[k])) => d = StoredDy(calls[k])

\* A frame drawn with a stored offset above the range, one below it and a non-zero
\* one inside it.
C8_Witness ==
  /\ Drawn
  /\ \E k \in LipStrokes : StoredDy(calls[k]) > MOUTH_MAX_DY
                           /\ boxY - calls[k].y = MOUTH_MAX_DY
  /\ \E k \in LipStrokes : StoredDy(calls[k]) < -MOUTH_MAX_DY
                           /\ boxY - calls[k].y = -MOUTH_MAX_DY
  /\ \E k \in LipStrokes : InRange(StoredDy(calls[k])) /\ StoredDy(calls[k]) # 0

\* The upper-lip stroke of segment i (0-based) of the last call.
SegStroke(i) == calls[CHOOSE k \in LipStrokes : calls[k].seg = i /\ calls[k].lip = "upper"]

RECURSIVE SumSegW(_)
SumSegW(i) == IF i < 0 THEN 0 ELSE SegStroke(i).w + SumSegW(i - 1)

\* The segments drawn tile the inner width: every segment is drawn, both strokes
\* of a segment span the same columns, the first segment starts where the left
\* anchor ends, each next one where the one before ends, the last one ends where
\* the right anchor starts, and the widths and the two anchors add up to mouthW.
Tiles ==
  /\ Len(calls) = 3 + 2 * MOUTH_SEGMENTS
  /\ \A i \in 0 .. MOUTH_SEGMENTS - 1 :
       \A k \in LipStrokes :
         calls[k].seg = i => calls[k].x = SegStroke(i).x /\ calls[k].w = SegStroke(i).w
  /\ \A i \in 0 .. MOUTH_SEGMENTS - 1 : SegStroke(i).w >= 1
  /\ SegStroke(0).x = calls[2].x + calls[2].w
  /\ \A i \in 0 .. MOUTH_SEGMENTS - 2 :
       SegStroke(i + 1).x = SegStroke(i).x + SegStroke(i).w
  /\ SegStroke(MOUTH_SEGMENTS - 1).x + SegStroke(MOUTH_SEGMENTS - 1).w = calls[3].x
  /\ SumSegW(MOUTH_SEGMENTS - 1) + calls[2].w + calls[3].w = boxW

MouthRegion ==
  LET x0 == mouthX(gfxW, boxW)
  IN {p \in (0 .. gfxW - 1) \X (0 .. gfxH - 1) :
        /\ x0 <= p[1] /\ p[1] <= x0 + boxW - 1
        /\ boxY - MOUTH_MAX_DY - MOUTH_CLEAR_PAD <= p[2]
        /\ p[2] <= boxY + MOUTH_MAX_DY + MOUTH_CLEAR_PAD}

\* What drawMouthFrame draws of frame f in the box on a black display.
FrameImage(f) ==
  Render({}, drawMouthFrame(boxY, boxW, f, gfxW, MOUTH_SEGMENTS, MOUTH_MAX_DY,
                            MOUTH_CLEAR_PAD), 1, gfxW, gfxH)

\* C10: after drawMouthFrame the pixels of the mouth region are those of the frame
\* drawn in that box, whatever the display held before; drawing the frame that is
\* already shown changes no pixel; and drawing f over a display that shows frame g
\* leaves exactly the pixels of f lit, none of g's own.
C10_RegionDependsOnFrameOnly ==
  [][shown' # NoFrame =>
       /\ fb' \cap MouthRegion = FrameImage(shown') \cap MouthRegion
       /\ shown' = shown => fb' = fb
       /\ (Drawn /\ fb = FrameImage(shown)) => fb' = FrameImage(shown')]_vars

\* A frame with lip strokes off the baseline drawn over a display that was lit
\* all over: the region shows the frame alone, the rest of the display is untouched.
C10_Witness ==
  /\ Drawn
  /\ innerW(boxW) > 0
  /\ <<0, 0>> \in fb
  /\ \E k \in LipStrokes : calls[k].y # boxY
  /\ fb \cap MouthRegion = FrameImage(shown) \cap MouthRegion
  /\ fb \cap MouthRegion # MouthRegion

\* A call's rectangle as passed to the display (before clipping) lies inside
\* the rectangle of call r.
InsideCall(c, r) ==
  /\ r.x <= c.x /\ c.x + c.w <= r.x + r.w
  /\ r.y <= c.y /\ c.y + c.h <= r.y + r.h

\* The last drawMouthFrame call cleared the stated rectangle first and every
\* other call of it (anchors, lip strokes) lies inside that rectangle.
WritesInsideClearRect ==
  /\ calls[1].color = "black"
  /\ calls[1].x = mouthX(gfxW, boxW) /\ calls[1].w = boxW
  /\ calls[1].y = boxY - MOUTH_MAX_DY - MOUTH_CLEAR_PAD
  /\ calls[1].h = 2 * (MOUTH_MAX_DY + MOUTH_CLEAR_PAD) + 1
  /\ \A k \in 2 .. Len(calls) : calls[k].color = "white" /\ InsideCall(calls[k], calls[1])

\* The pixels of the two anchors of the mouth box.
AnchorPixels ==
  CallPixels(AnchorCalls(boxY, boxW, gfxW)[1], gfxW, gfxH)
    \cup CallPixels(AnchorCalls(boxY, boxW, gfxW)[2], gfxW, gfxH)

LoopStep == kTicks' # kTicks

\* start + k * period for the last tick made, on the 32-bit tick count.
Scheduled == AddInt(startMs, kTicks * period)

\* How long after its scheduled time the last tick left vTaskDelayUntil.
Deviation == SubU32(wokeMs, Scheduled)

\* C12 as stated: over any number of ticks, the time at which tick k runs deviates
\* from start + k * period by less than one tick period.
C12_DeviationBelowPeriod ==
  kTicks > 0 => Small(Deviation) \in 0 .. (period - 1)

\* C12, amended: the schedule never drifts: the wake time of tick k is exactly
\* start + k * period whatever the work took, because it is computed from the
\* previous wake time. The tick runs at that time when the work before it has
\* ended by then and otherwise at once, when that work ends; so it deviates from
\* start + k * period by the amount the work before it ran past the scheduled
\* time: by nothing while no tick's work overran, and by a period or more after
\* an overrun of a period or more.
C12_ScheduleNeverDrifts ==
  [][LoopStep =>
       /\ last' = Scheduled'
       /\ wokeMs' = (IF GeU32(last', now) THEN last' ELSE now)
       /\ ~stalled => Deviation' = U32(0)]_vars

\* More than 150 ticks made, every one at its scheduled time.
C12_Witness ==
  /\ lastOp = "tick" /\ idled /\ ~stalled
  /\ kTicks > 150
  /\ wokeMs = Scheduled
  /\ last = Scheduled

\* The last tick left vTaskDelayUntil later than its wake time: it did not wait.
RanAtOnce == kTicks > 0 /\ wokeMs # last

\* Whether the work of the last tick, from its wake-up to now, stayed below a period.
WorkWithinPeriod == Small(SubU32(now, wokeMs)) \in 0 .. (period - 1)

\* C13: when a tick's work takes longer than the period, the next tick fires
\* immediately, and exactly one tick runs without waiting: the tick after a tick
\* that ran without waiting (and whose own work stayed within the period) starts
\* a full period after it, with no burst of back-to-back ticks.
C13_NoCatchUpBurst ==
  [][(nTicks' = nTicks + 1 /\ kTicks > 0) =>
       /\ ~WorkWithinPeriod => wokeMs' = now
       /\ (RanAtOnce /\ WorkWithinPeriod) => wokeMs' = AddInt(wokeMs, period)]_vars

\* ---------------------------------------------------------------- debug mode
\* The k-th mood of the debug cycle, k = 1, 2, ...
CycleMood(k) == DEBUG_MOODS[((k - 1) % 5) + 1]

\* A step in which debug mode renders the next mood.
DebugSwitch == Len(moodLog') = Len(moodLog) + 1

CaseVariant(l, cmd) ==
  /\ Len(l) = Len(cmd)
  /\ \A i \in 1..Len(cmd) :
       \/ l[i] = cmd[i]
       \/ \E k \in 1..Len(LowerChars) : LowerChars[k] = cmd[i] /\ UpperChars[k] = l[i]

\* The step reads the character that ends the line held in the buffer.
LineEnds == linkPc = "run" /\ rx # <<>> /\ IsEol(Head(rx)) /\ rx' = Tail(rx)

Acks == SelectSeq(out, LAMBDA r : r \in {ACK_START, ACK_STOP})

\* The reply to the most recent command the link recognized, if any.
LastAck == IF Acks = <<>> THEN <<>> ELSE Acks[Len(Acks)]

\* C15: a line that is "start smile" in any letter case is answered with exactly
\* {"ack":"start_smile"} and drives the indicator high, a line that is "stop" in
\* any letter case is answered with exactly {"ack":"stop"} and drives the
\* indicator low; at every moment the indicator is high exactly when the most
\* recent acknowledged command was "start smile", low exactly when it was
\* "stop", and not driven while no command has been acknowledged.
C15_CommandsAcked ==
  /\ [][LineEnds =>
          /\ CaseVariant(line, CMD_START) =>
               out' = Append(out, ACK_START) /\ led' = "HIGH"
          /\ CaseVariant(line, CMD_STOP) =>
               out' = Append(out, ACK_STOP) /\ led' = "LOW"]_vars
  /\ [](/\ led = "HIGH" <=> LastAck = ACK_START
        /\ led = "LOW" <=> LastAck = ACK_STOP
        /\ led = "unset" <=> LastAck = <<>>)

\* "START SMILE" then "stop" were received: both acknowledged, indicator low.
C15_Witness ==
  /\ Len(out) = 3
  /\ out[2] = ACK_START
  /\ out[3] = ACK_STOP
  /\ led = "LOW"

\* t is l without the white space before its first and after its last
\* character that is not white space.
IsTokenOf(t, l) ==
  \E i \in 1..(Len(l) + 1), j \in 0..Len(l) :
    /\ t = SubSeq(l, i, j)
    /\ \A k \in 1..Len(l) : (k < i \/ k > j) => IsSpace(l[k])
    /\ i <= j => ~IsSpace(l[i]) /\ ~IsSpace(l[j])
    /\ i > j => i = Len(l) + 1 /\ j = Len(l)

Tokens(l) == {SubSeq(l, i, j) : i \in 1..(Len(l) + 1), j \in 0..Len(l)}

Token(l) == CHOOSE t \in Tokens(l) : IsTokenOf(t, l)

\* C16 as stated: every line that is neither command, letter case aside, is
\* answered with the error reply that carries the received line, and the
\* indicator is left alone. (Read for lines of at least one character.)
C16_UnknownLineEchoed ==
  [][(/\ LineEnds
      /\ Len(line) > 0
      /\ ~CaseVariant(line, CMD_START)
      /\ ~CaseVariant(line, CMD_STOP)) =>
       out' = Append(out, ErrorReply(line)) /\ led' = led]_vars

\* C16: a line of at least one character is answered by its token, the line
\* without surrounding white space: a token that is neither command, letter
\* case aside, gets exactly the error reply carrying the token and leaves the
\* indicator alone, a token that is a command gets that command's ack; an empty
\* line gets no reply at all. In each case the buffer is empty again and the
\* link still runs, so the next line is served like any other.
C16_UnknownTokenEchoed ==
  /\ [][LineEnds =>
          IF Len(line) = 0
          THEN out' = out /\ led' = led
          ELSE /\ IF CaseVariant(Token(line), CMD_START)
                  THEN out' = Append(out, ACK_START)
                  ELSE IF CaseVariant(Token(line), CMD_STOP)
                  THEN out' = Append(out, ACK_STOP)
                  ELSE out' = Append(out, ErrorReply(Token(line))) /\ led' = led
               /\ line' = <<>>]_vars
  /\ [][linkPc = "run" => linkPc' = "run"]_vars

\* "no " was answered with the error reply carrying "no", and the command sent
\* after it was acknowledged.
C16_Witness ==
  /\ Len(out) = 3
  /\ out[2] = ErrorReply(<<"n", "o">>)
  /\ out[3] = ACK_START
  /\ led = "HIGH"

\* C18: the status line is the first line the link prints and no later line is
\* the status line: it is printed once, before any reply to a command.
C18_ReadyOnceFirst ==
  /\ linkPc = "boot" => out = <<>>
  /\ linkPc = "run" =>
       /\ Len(out) >= 1
       /\ out[1] = READY_LINE
       /\ \A i \in 2..Len(out) : out[i] # READY_LINE

\* Two replies have followed the status line.
C18_Witness ==
  /\ linkPc = "run"
  /\ Len(out) = 3
  /\ out[1] = READY_LINE
  /\ out[3] \in {ACK_START, ACK_STOP}


\* ---------------------------------------------------------------- order within a tick

\* The calls that render the mouth or its label.
RenderCalls == {"clearMoodLabel", "drawMouthMood", "drawMoodLabel", "drawMouthTalkIdx"}

\* The calls recorded belong to a tick of loop() (not to setup()).
InTick == events # <<>> /\ events[1] = "vTaskDelayUntil"

\* Brackets open at position i of ev: startWrite calls less endWrite calls.
OpenAt(ev, i) ==
  Cardinality({j \in 1..i : ev[j] = "startWrite"})
    - Cardinality({j \in 1..i : ev[j] = "endWrite"})

\* C17: in either build, in every tick the eye update is called once, right
\* after the wait, and before the clock is read and before any render call;
\* every render call is made inside a startWrite..endWrite bracket, brackets do
\* not nest, and whenever a tick is over (the loop is back at its wait) every
\* bracket the tick opened has been closed.
C17_EyesFirstRendersComplete ==
  /\ InTick =>
       /\ Cardinality({i \in 1..Len(events) : events[i] = "vTaskDelayUntil"}) = 1
       /\ Cardinality({i \in 1..Len(events) : events[i] = "Eyes::update"}) = 1
       /\ \A i \in 1..Len(events) :
            events[i] \in RenderCalls \cup {"nowMs", "startWrite", "endWrite"} =>
              \E j \in 1..(i - 1) : events[j] = "Eyes::update"
  /\ \A i \in 1..Len(events) :
       /\ OpenAt(events, i) \in {0, 1}
       /\ events[i] \in RenderCalls => OpenAt(events, i) = 1
  /\ OpenAt(events, Len(events)) = 0

\* A tick of the normal build that entered Talking and swapped the frame: two
\* brackets after the eye update.
C17_Witness ==
  /\ MODE = "normal"
  /\ InTick
  /\ pc = "wait"
  /\ Cardinality({i \in 1..Len(events) : events[i] = "endWrite"}) = 2


\* ---------------------------------------------------------------- drawMouthTalkIdx

\* C19: after drawMouthTalkIdx(idx), for any int idx, the bank was read at an
\* index j in 0 .. NUM_TALK_FRAMES - 1 that is congruent to idx modulo
\* NUM_TALK_FRAMES (the one such index), and the frame drawn is TALK_FRAMES[j].
C19_TalkIdxWrapped ==
  calls # <<>> =>
    /\ talkRead \in 0 .. NUM_TALK_FRAMES - 1
    /\ talkRead = talkArg % NUM_TALK_FRAMES
    /\ shown = TALK_FRAMES(NUM_TALK_FRAMES, MOUTH_SEGMENTS, MOUTH_MAX_DY)[talkRead + 1]

\* idx = -4 on a bank of three frames: the frame at index 2 was drawn.
C19_Witness ==
  /\ calls # <<>>
  /\ NUM_TALK_FRAMES = 3
  /\ talkArg = -4
  /\ talkRead = 2


\* ---------------------------------------------------------------- dwell and the clock

\* The dwell drawn when the current state was entered.
DrawnDwell == SubU32(g_stateUntilMs, entryMs)

\* Time from the entry of the current state to the clock reading of the tick
\* this step runs, counted on the 32-bit clock.
HeldFor == SubU32(tNow', entryMs)

\* C20 (normal mode): whatever the value of the 32-bit clock, a state entered at
\* t with drawn dwell D is never left before t + D: a tick leaves it only when
\* its clock reading is D or more after the entry, counted on the 32-bit clock;
\* and while the ticks run on schedule it is left by the first tick at or after
\* t + D, less than one period after t + D.
C20_DwellHonouredAcrossWrap ==
  [][(pc # "boot" /\ TickStep) =>
       /\ g_speech' # g_speech => GeU32(HeldFor, DrawnDwell)
       /\ ~stalled' =>
            /\ GeU32(HeldFor, DrawnDwell) => g_speech' # g_speech
            /\ g_speech' # g_speech => LtU32(HeldFor, AddInt(DrawnDwell, period))]_vars


\* ---------------------------------------------------------------- frames per tick

\* The mouth frames rendered by the calls ds.
MouthFrames(ds) == SelectSeq(ds, LAMBDA d : d.op \in {"drawMouthMood", "drawMouthTalkIdx"})

\* C21 (normal mode): the calls of one tick render at most one mouth frame, and
\* the tick of a state transition, into Talking or out of it, does not swap the
\* talk frame as well.
C21_OneMouthFramePerTick ==
  /\ Len(MouthFrames(draws)) <= 1
  /\ (pc # "boot" /\ entered # "none" /\ lastOp # "setup") => ~swapped


\* ---------------------------------------------------------------- termination of the swap

\* C22: under a fair random source the no-repeat loop of a due swap ends, for
\* every size of the talk-frame bank from 1 up: a tick that has reached the swap
\* completes.
C22_SwapLoopTerminates == (pc = "swap") ~> (pc = "wait")


\* ---------------------------------------------------------------- both states recur

\* The tick is in the no-repeat loop of the swap and no draw can end it: the
\* frame clock is held up for good.
ClockHeldUp ==
  /\ pc = "swap"
  /\ \A r \in RandVals :
       ~SwapLoopExits(randRange(0, NUM_TALK_FRAMES - 1, r), g_currTalkIdx)

\* The dwell of the current state ends before the ticking explored stops.
DueInTime == pc # "boot" /\ LtU32(g_stateUntilMs, U32(LiveHorizon))

NonBlank(l) == \E i \in 1..Len(l) : ~IsSpace(l[i])

\* The reply the protocol gives to the received line l.
ReplyTo(l) ==
  IF CaseVariant(Token(l), CMD_START) THEN ACK_START
  ELSE IF CaseVariant(Token(l), CMD_STOP) THEN ACK_STOP
  ELSE ErrorReply(Token(l))

\* C24: whatever way the bytes are split over the calls of loop(), the end of a
\* line that has a character other than white space is answered by exactly one
\* reply, the reply to that whole line, and the end of a blank line (empty or
\* white space only) by none; so the "\n" after a "\r" gets no reply of its
\* own.
C24_RepliesFollowTheStream ==
  [][LineEnds =>
       IF NonBlank(rcvd)
         THEN out' = Append(out, ReplyTo(rcvd))
         ELSE out' = out]_vars

\* ---------------------------------------------------------------- mouth layout
\* setup() has run.
LaidOut == pc # "boot"

\* The limits setup() gives the clamp: below the eyes, above the screen edge.
MouthFloor == EYES.L.cy + EYES.L.rWhite + 8
MouthCeil == gfxH - 4

\* The baseline setup() aims at before the clamp.
MouthTarget == gfxH - MOUTH_BASELINE_OFFSET - (EYES.oldCy - EYES.L.cy) + MOUTH_EXTRA_DOWN

\* No step after setup() writes g_mouthY or g_mouthW.
LayoutKept == [][LaidOut => boxY' = boxY /\ boxW' = boxW]_vars

====
